---------------------------- MODULE Spec2Model ----------------------------
(***************************************************************************)
(* A model of the Barnes-Hut t-SNE engine of src/unnamed/part_000 (class   *)
(* TSNE, nearest2P, gaussRandom and the helpers around them).              *)
(*                                                                         *)
(* Numbers.  A JavaScript double is modelled by an exact rational <<n, d>> *)
(* in lowest terms with d > 0; <<0, 0>> stands for a non-finite result     *)
(* (NaN or an infinity, what a division by zero yields).  The gains are    *)
(* kept in fixed point (GainScale units per 1.0), because gain * 0.8 is    *)
(* iterated hundreds of times.                                             *)
(*                                                                         *)
(* Not computable in TLA+ and therefore abstracted:                        *)
(*   - Math.exp(-dist * beta) at the precision the binary search of        *)
(*     nearest2P stops at: a value of ExpVals chosen per row (1 exactly    *)
(*     when dist = 0);                                                     *)
(*   - sqrt(-2 ln(r) / r) of gaussRandom: the table PolarScale;            *)
(*   - the gradient costGrad returns when it does not throw: an input of   *)
(*     the step drawn from GradChoices (computing it needs the tree of     *)
(*     sptree.js, which is not part of the sources).                       *)
(***************************************************************************)
EXTENDS Integers, Sequences, FiniteSets, TLC

\* ------------------------------------------------------------- bounds
\* Largest number of points (rows of a kNN table).
MaxN == 3
\* Largest number of neighbors in a row of a kNN table.
MaxK == 2
\* Largest number of steps per initialization in the specifications that
\* step with non-zero gradients.
MaxIter == 2
\* Largest number of initSolution runs per engine.
MaxInits == 2
\* Largest number of steps in SpecSchedule (beyond both schedule switches).
MaxSchedIter == 255
\* Largest number of trials of a binary search the model follows (beyond
\* the limit of the code).
MaxTrials == 52
\* Largest number of nodes of a tree.
MaxNodes == 3

\* ---------------------------------------------------- rational numbers
NaN == <<0, 0>>
Zero == <<0, 1>>
One == <<1, 1>>

Abs(x) == IF x < 0 THEN -x ELSE x

RECURSIVE GCD(_, _)
GCD(a, b) == IF b = 0 THEN a ELSE GCD(b, a % b)

IsNaN(x) == x[2] = 0

\* n/d in lowest terms with a positive denominator; x/0 is non-finite.
RNorm(n, d) ==
  IF d = 0 THEN NaN
  ELSE LET g == GCD(Abs(n), Abs(d))
           s == IF d < 0 THEN -1 ELSE 1
       IN  <<(s * n) \div g, Abs(d) \div g>>

RAdd(a, b) ==
  IF IsNaN(a) \/ IsNaN(b) THEN NaN
  ELSE LET g == GCD(a[2], b[2])
           l == (a[2] \div g) * b[2]
       IN  RNorm(a[1] * (l \div a[2]) + b[1] * (l \div b[2]), l)

RNeg(a) == IF IsNaN(a) THEN NaN ELSE <<-a[1], a[2]>>

RSub(a, b) == RAdd(a, RNeg(b))

RMul(a, b) ==
  IF IsNaN(a) \/ IsNaN(b) THEN NaN
  ELSE LET g1 == GCD(Abs(a[1]), b[2])
           g2 == GCD(Abs(b[1]), a[2])
       IN  RNorm((a[1] \div g1) * (b[1] \div g2), (a[2] \div g2) * (b[2] \div g1))

RDiv(a, b) ==
  IF IsNaN(a) \/ IsNaN(b) \/ b[1] = 0 THEN NaN
  ELSE RMul(a, IF b[1] < 0 THEN <<-b[2], -b[1]>> ELSE <<b[2], b[1]>>)

RInt(n) == <<n, 1>>

\* Comparisons; as in JavaScript every comparison with NaN is false.
RLt(a, b) == ~IsNaN(a) /\ ~IsNaN(b) /\ a[1] * b[2] < b[1] * a[2]
RLe(a, b) == ~IsNaN(a) /\ ~IsNaN(b) /\ a[1] * b[2] <= b[1] * a[2]
REq(a, b) == ~IsNaN(a) /\ ~IsNaN(b) /\ a = b

\* Math.max(a, b) for finite a, b.
RMax(a, b) == IF RLt(a, b) THEN b ELSE a

RECURSIVE RSum(_)
RSum(s) == IF s = <<>> THEN Zero ELSE RAdd(Head(s), RSum(Tail(s)))

\* ------------------------------------------------------------ constants
THETA == <<4, 5>>

\* 1E-9 in the source.  The model keeps it as the rational
\* 1 / MinProbDenom with a smaller denominator, so that the exact sums of
\* nearest2P stay inside TLC's 32-bit integers; every formula refers to it
\* by name only.
MinProbDenom == 10 ^ 2
MIN_POSSIBLE_PROB == <<1, MinProbDenom>>

\* Fixed-point unit of the gains: GainScale stands for 1.0.
GainScale == 10 ^ 6

\* Module-level cache of gaussRandom: see the variables return_v and v_val.

\* --------------------------------------------------------- the sampler
\* The caller's uniform generator: a seeded congruential generator on
\* 0..7, x' = (5 x + 3) mod 8, which returns x' / 8.  A generator is its
\* state x, so two generators with the same seed produce the same stream.
Seeds == {0, 3}
RngNext(x) == (5 * x + 3) % 8

\* sqrt(-2 ln(r) / r) for r = s/16, the values u*u + v*v can take when u
\* and v are multiples of 1/4; rounded to one decimal.
PolarScale(s) ==
  CASE s = 1 -> <<94, 10>>
    [] s = 2 -> <<58, 10>>
    [] s = 4 -> <<33, 10>>
    [] s = 5 -> <<27, 10>>
    [] s = 8 -> <<17, 10>>
    [] s = 9 -> <<14, 10>>
    [] s = 10 -> <<12, 10>>
    [] s = 13 -> <<7, 10>>
    [] OTHER -> Zero

\* gaussRandom(rng): g = [rv, vv, rng] is the module-level cache
\* (return_v, v_val) and the state of the generator passed in; the result
\* is [val, rv, vv, rng].  4u and 4v are the integers a and b.
RECURSIVE gaussRandom(_)
gaussRandom(g) ==
  IF g.rv
  THEN [val |-> g.vv, rv |-> FALSE, vv |-> g.vv, rng |-> g.rng]
  ELSE LET x1 == RngNext(g.rng)
           x2 == RngNext(x1)
           a == x1 - 4
           b == x2 - 4
           s == a * a + b * b
       IN  IF s = 0 \/ s > 16
           THEN gaussRandom([g EXCEPT !.rng = x2])
           ELSE LET c == RNorm(PolarScale(s)[1], PolarScale(s)[2])
                IN  [val |-> RMul(RNorm(a, 4), c),
                     rv |-> TRUE,
                     vv |-> RMul(RNorm(b, 4), c),
                     rng |-> x2]

\* randn(rng, mu, std)
randn(g, mu, std) ==
  LET r == gaussRandom(g)
  IN  [r EXCEPT !.val = RAdd(mu, RMul(r.val, std))]

\* randnMatrix(n, d, rng): n*d draws with mu = 0.0, std = 1E-4, in order.
\* Result: [x, rv, vv, rng].
RECURSIVE randnFill(_, _, _)
randnFill(nd, g, x) ==
  IF Len(x) >= nd THEN [x |-> x, rv |-> g.rv, vv |-> g.vv, rng |-> g.rng]
  ELSE LET r == randn(g, Zero, <<1, 10000>>)
       IN  randnFill(nd, [rv |-> r.rv, vv |-> r.vv, rng |-> r.rng],
                     Append(x, r.val))

randnMatrix(n, d, g) == randnFill(n * d, g, <<>>)

\* arrayofs(n, d, val)
arrayofs(n, d, val) == [i \in 1..n |-> [k \in 1..d |-> val]]

\* sign(x) of a rational
sign(x) == IF IsNaN(x) THEN 0 ELSE IF x[1] > 0 THEN 1 ELSE IF x[1] < 0 THEN -1 ELSE 0


\* ------------------------------------------------------- kNN tables
\* A kNN table is a sequence of rows, one per point; a row is a sequence of
\* neighbors [index, dist].  Points are numbered from 0 as in the source;
\* row i of the source is nearest[i + 1] here.  The index N is the index
\* outside [0, N) the tables contain; dist is 0 or 1.
Dists == {0, 1}
Entry(N) == [index : 0..N, dist : Dists]

\* The rows of length l: neighbors in the order of their distance.
Rows(N, l) ==
  {r \in [1..l -> Entry(N)] : \A k \in 1..(l - 1) : r[k].dist <= r[k + 1].dist}

\* The ring: point i lists the K points after it, i + 1, ..., i + K mod N,
\* at distance 1 (for K >= N the point itself is among them).
Ring(N, K) ==
  [r \in 1..N |-> [k \in 1..K |-> [index |-> (r - 1 + k) % N, dist |-> 1]]]

\* The values Math.exp(-dist * beta) takes for dist > 0 at the precision
\* the search ends with: underflow to 0, or a value strictly inside (0, 1).
ExpVals == {Zero, <<1, 2>>}

\* ----------------------------------------------------------- nearest2P
\* Math.exp(-neighbor.dist * beta), e being its value for dist = 1.
ExpNeg(dist, e) == IF dist = 0 THEN One ELSE e

\* One kernel value of the trial loop (lines 164-166): 0 for the point
\* itself, then clamped from below.
KernelNoClamp(i, neighbor, e) ==
  IF i = neighbor.index THEN Zero ELSE ExpNeg(neighbor.dist, e)

Kernel(i, neighbor, e) ==
  RMax(IF i = neighbor.index THEN Zero ELSE ExpNeg(neighbor.dist, e),
       MIN_POSSIBLE_PROB)

\* The kernel row and its sum psum (lines 162-169) of point i.
KernelRow(i, neighbors, e) ==
  [k \in 1..Len(neighbors) |-> Kernel(i, neighbors[k], e)]

\* pRow after normalization (lines 172-178), for the entries of this row.
NormRow(raw) == [k \in 1..Len(raw) |-> RDiv(raw[k], RSum(raw))]

\* Lines 208-212: the copy loop reads neighbors[k] for every k below
\* pRow.length.  pRow starts with K = nearest[0].length slots and only
\* grows, so a row shorter than an earlier one makes neighbors[k]
\* undefined and neighbors[k].index a TypeError.
RowThrows(nearest, r) == \E q \in 1..(r - 1) : Len(nearest[q]) > Len(nearest[r])

\* P[i * N + j] = pij for k = 1, 2, ... in order; a Float64Array ignores a
\* write beyond its length.
RECURSIVE WriteRow(_, _, _, _, _, _)
WriteRow(P, N, i, neighbors, pRow, k) ==
  IF k > Len(neighbors) THEN P
  ELSE LET idx == i * N + neighbors[k].index
       IN  WriteRow(IF idx < N * N THEN [P EXCEPT ![idx + 1] = pRow[k]] ELSE P,
                    N, i, neighbors, pRow, k + 1)

\* The loop over the examples (lines 150-213), rows r..N of the table.
RECURSIVE FillRows(_, _, _, _)
FillRows(P, nearest, kv, r) ==
  IF r > Len(nearest) THEN P
  ELSE FillRows(WriteRow(P, Len(nearest), r - 1, nearest[r],
                         NormRow(KernelRow(r - 1, nearest[r], kv[r])), 1),
                nearest, kv, r + 1)

\* Lines 216-225, with the bug that would write one side only.
SymmetrizeOneSide(P, N) ==
  [idx \in 1..(N * N) |->
     LET i == (idx - 1) \div N
         j == (idx - 1) % N
     IN  IF i < j
         THEN RDiv(RAdd(P[i * N + j + 1], P[j * N + i + 1]), RInt(2 * N))
         ELSE P[idx]]

\* Lines 216-225: every pair i < j is visited once, both cells get
\* (P[i_j] + P[j_i]) / N2; the diagonal is not touched.
Symmetrize(P, N) ==
  [idx \in 1..(N * N) |->
     LET i == (idx - 1) \div N
         j == (idx - 1) % N
     IN  IF i = j THEN P[idx]
         ELSE RDiv(RAdd(P[i * N + j + 1], P[j * N + i + 1]), RInt(2 * N))]

zeros(n) == [idx \in 1..n |-> Zero]

\* nearest2P(nearest, perplexity, tol).  kv[r] is the value of
\* exp(-1 * beta) in the last trial of row r.  The result is
\* [err, P, Praw, kRows, pRows]: err = "TypeError" when the call throws
\* (then P is never returned), Praw is P after line 213, kRows[r] the
\* kernel row of row r before it is normalized, pRows[r] the normalized
\* pRow of row r that the copy loop writes.
nearest2P(nearest, kv) ==
  LET N == Len(nearest)
  IN  IF N = 0 \/ \E r \in 1..N : RowThrows(nearest, r)
      THEN [err |-> "TypeError", P |-> <<>>, Praw |-> <<>>, kRows |-> <<>>,
            pRows |-> <<>>]
      ELSE LET raw == FillRows(zeros(N * N), nearest, kv, 1)
           IN  [err |-> "none",
                P |-> Symmetrize(raw, N),
                Praw |-> raw,
                kRows |-> [r \in 1..N |-> KernelRow(r - 1, nearest[r], kv[r])],
                pRows |-> [r \in 1..N |->
                             NormRow(KernelRow(r - 1, nearest[r], kv[r]))]]


\* ------------------------------------------------------------ the state
\* The engines of the process (objects of class TSNE), by number.
Engines == {1, 2}

VARIABLES
  engines,   \* engines[e]: the fields of engine e, see NoEngine
  return_v,  \* module-level: a second Gaussian draw is cached (line 61)
  v_val,     \* module-level: the cached draw (line 62)
  last,      \* the last call of new, initDataDist, initSolution or
             \* step: [op, e, outcome], for new also its argument opt
  search,    \* the locals of nearest2P's binary search for one row
             \* (lines 150-205), see NoSearch
  walk       \* the tree of a costGrad call and the repulsive walk of one
             \* point over it (lines 380-457), see NoWalk

vars == <<engines, return_v, v_val, last, search, walk>>

\* The binary search: row is the row i it runs for (-1: none yet),
\* numTries the trials made, betaMinInf / betaMaxInf say whether betaMin is
\* still -Infinity / betaMax still Infinity, running whether the while
\* loop has not reached its break.  close is not a local: it records
\* whether the last trial ended within tol of the target.  The value of
\* beta is not kept, only how the last trial adjusted it (adjust).
NoSearch == [row |-> -1, numTries |-> 0, betaMinInf |-> TRUE,
             betaMaxInf |-> TRUE, adjust |-> "none", running |-> FALSE,
             close |-> FALSE]

\* No tree yet.
NoWalk == [tree |-> <<>>, query |-> <<>>, visits |-> <<>>, Z |-> Zero]

\* The state the engine operations leave alone.
locals == <<search, walk>>

\* The fields of an engine.  alive: the constructor has returned it.
\* inited: this.N and this.P are set (undefined before the first successful
\* initDataDist).  hasY: this.Y, this.gains, this.ystep are set.
\* Not fields of the class, kept to state properties: seed (of the rng the
\* engine was given), inits (initSolution runs), distCalled (initDataDist
\* was called), calls / done (step calls / completed step calls since the
\* last initSolution), hist (the gradients of those completed steps),
\* alpha and momval (what the last step call read), Praw, kRows and pRows
\* (the intermediate values of the last successful nearest2P).
NoEngine ==
  [alive |-> FALSE, dim |-> 0, epsilon |-> 0, rng |-> 0, seed |-> 0,
   iter |-> 0, inited |-> FALSE, N |-> 0, P |-> <<>>, nearest |-> <<>>,
   hasY |-> FALSE, Y |-> <<>>, gains |-> <<>>, ystep |-> <<>>,
   inits |-> 0, distCalled |-> FALSE, calls |-> 0, done |-> 0, hist |-> <<>>,
   alpha |-> 0, momval |-> Zero, Praw |-> <<>>, kRows |-> <<>>,
   pRows |-> <<>>]

Init ==
  /\ engines = [e \in Engines |-> NoEngine]
  /\ return_v = FALSE
  /\ v_val = Zero
  /\ last = [op |-> "none", e |-> 0, outcome |-> "none"]
  /\ search = NoSearch
  /\ walk = NoWalk

\* --------------------------------------------------------- constructor
\* The options of a constructor call: no options object at all, or an
\* object whose dim is missing (0), 2, 3 or 4.
Opts == {[present |-> FALSE, dim |-> 0]} \cup
        {[present |-> TRUE, dim |-> d] : d \in {0, 2, 3, 4}}

\* this.dim = opt.dim without the default of line 277.
OptDimNoDefault(opt) == opt.dim

\* opt = opt || {dim: 2}; this.dim = opt.dim
OptDim(opt) == IF opt.present THEN opt.dim ELSE 2

\* new TSNE(opt), the rng of opt being a generator seeded with seed.
\* perplexity and epsilon take their defaults (30 and 10).
Construct(e, opt, seed) ==
  /\ ~engines[e].alive
  /\ IF OptDim(opt) = 2 \/ OptDim(opt) = 3
     THEN /\ engines' = [engines EXCEPT ![e] =
                 [NoEngine EXCEPT !.alive = TRUE, !.dim = OptDim(opt),
                                  !.epsilon = 10, !.rng = seed, !.seed = seed]]
          /\ last' = [op |-> "new", e |-> e, outcome |-> "ok", opt |-> opt]
     ELSE /\ engines' = engines
          /\ last' = [op |-> "new", e |-> e,
                      outcome |-> "Error: Only 2D and 3D is supported",
                      opt |-> opt]
  /\ UNCHANGED <<return_v, v_val>>
  /\ UNCHANGED locals

\* -------------------------------------------------------- initSolution
\* The fields initSolution assigns, and the module-level cache after it.
\* With this.N undefined, randnMatrix and arrayofs return empty arrays.
InitSolutionResult(eng, rv, vv) ==
  LET n == IF eng.inited THEN eng.N ELSE 0
      m == randnMatrix(n, eng.dim, [rv |-> rv, vv |-> vv, rng |-> eng.rng])
  IN  [eng |-> [eng EXCEPT !.Y = m.x, !.hasY = TRUE, !.rng = m.rng,
                           !.gains = arrayofs(n, eng.dim, GainScale),
                           !.ystep = arrayofs(n, eng.dim, Zero),
                           !.iter = 0,
                           !.inits = eng.inits + 1, !.calls = 0, !.done = 0,
                           !.hist = <<>>],
       rv |-> m.rv, vv |-> m.vv]

InitSolution(e) ==
  /\ engines[e].alive
  /\ engines[e].inits < MaxInits
  /\ \E r \in {InitSolutionResult(engines[e], return_v, v_val)} :
       /\ engines' = [engines EXCEPT ![e] = r.eng]
       /\ return_v' = r.rv
       /\ v_val' = r.vv
  /\ last' = [op |-> "initSolution", e |-> e, outcome |-> "ok"]
  /\ UNCHANGED locals

\* -------------------------------------------------------- initDataDist
\* initDataDist(nearest): this.nearest is assigned before nearest2P runs,
\* so it is replaced also when nearest2P throws.
InitDataDistResult(eng, knn, kv, rv, vv) ==
  LET c == nearest2P(knn, kv)
      e1 == [eng EXCEPT !.nearest = knn, !.distCalled = TRUE]
  IN  IF c.err # "none"
      THEN [eng |-> e1, rv |-> rv, vv |-> vv, outcome |-> c.err]
      ELSE LET e2 == [e1 EXCEPT !.P = c.P, !.N = Len(knn), !.inited = TRUE,
                                !.Praw = c.Praw, !.kRows = c.kRows,
                                !.pRows = c.pRows]
               r == InitSolutionResult(e2, rv, vv)
           IN  [eng |-> r.eng, rv |-> r.rv, vv |-> r.vv, outcome |-> "ok"]

InitDataDist(e, knn, kv) ==
  /\ engines[e].alive
  /\ engines[e].inits < MaxInits
  /\ \E r \in {InitDataDistResult(engines[e], knn, kv, return_v, v_val)} :
       /\ engines' = [engines EXCEPT ![e] = r.eng]
       /\ return_v' = r.rv
       /\ v_val' = r.vv
       /\ last' = [op |-> "initDataDist", e |-> e, outcome |-> r.outcome]
  /\ UNCHANGED locals

\* The choices of kv for a table.
KvChoices(knn, vals) == [1..Len(knn) -> vals]

\* --------------------------------------------------------- getSolution
\* getSolution() returns this.Y and assigns nothing.
GetSolution(e) ==
  /\ engines[e].alive
  /\ UNCHANGED <<engines, return_v, v_val, last>>
  /\ UNCHANGED locals


\* ---------------------------------------------------------------- step
\* let alpha = this.iter < 100 ? 4 : 1 (costGrad, line 366)
Alpha(iter) == IF iter < 100 THEN 4 ELSE 1

\* let momval = this.iter < 250 ? 0.5 : 0.8 (line 340)
MomVal(iter) == IF iter < 250 THEN <<1, 2>> ELSE <<4, 5>>

\* The gain update of lines 333-336 without the clamp.
NewGainNoClamp(gid, sid, gainid) ==
  IF sign(gid) = sign(sid) THEN (gainid * 8) \div 10 ELSE gainid + GainScale \div 5

\* Lines 333-336: newgain, in fixed point.
NewGain(gid, sid, gainid) ==
  LET newgain == IF sign(gid) = sign(sid)
                 THEN (gainid * 8) \div 10
                 ELSE gainid + GainScale \div 5
  IN  IF newgain < GainScale \div 100 THEN GainScale \div 100 ELSE newgain

\* Line 341: newsid = momval * sid - this.epsilon * newgain * grad[i][d]
NewSid(momval, sid, epsilon, newgain, gid) ==
  RSub(RMul(momval, sid),
       RMul(RMul(RInt(epsilon), RNorm(newgain, GainScale)), gid))

\* costGrad with this.N set throws, before it returns, when it reads
\* this.nearest[i].length of a missing row i < N (line 427) or hands
\* points[j] = undefined for an index j outside [0, N) to this.dist2
\* (line 431, b[0] of undefined in dist2_2D / dist2_3D).
CostGradThrows(eng) ==
  \E r \in 1..eng.N :
     \/ r > Len(eng.nearest)
     \/ \E k \in 1..Len(eng.nearest[r]) : eng.nearest[r][k].index >= eng.N

\* The gradients costGrad may return for N points: zero, a value in every
\* coordinate, and its negative with alternating sign.
GradUnit == <<1, 10000>>

GradChoices(N, dim) ==
  {[i \in 1..N |-> [d \in 1..dim |-> Zero]],
   [i \in 1..N |-> [d \in 1..dim |-> GradUnit]],
   [i \in 1..N |-> [d \in 1..dim |->
      IF (i + d) % 2 = 0 THEN RNeg(GradUnit) ELSE GradUnit]]}

ZeroGrad(N, dim) == [i \in 1..N |-> [d \in 1..dim |-> Zero]]

\* Lines 325-357 with the early exaggeration applied to this.P in place.
StepUpdateScalesP(eng, grad) ==
  LET N == eng.N
      dim == eng.dim
      momval == MomVal(eng.iter)
      newgain == [i \in 1..N |-> [d \in 1..dim |->
                    NewGain(grad[i][d], eng.ystep[i][d], eng.gains[i][d])]]
      newsid == [i \in 1..N |-> [d \in 1..dim |->
                    NewSid(momval, eng.ystep[i][d], eng.epsilon,
                           newgain[i][d], grad[i][d])]]
      Y1 == [x \in 1..(N * dim) |->
               RAdd(eng.Y[x], newsid[((x - 1) \div dim) + 1][((x - 1) % dim) + 1])]
      ymean == [d \in 1..dim |-> RSum([i \in 1..N |-> Y1[(i - 1) * dim + d]])]
      Y2 == [x \in 1..(N * dim) |->
               RSub(Y1[x], RDiv(ymean[((x - 1) % dim) + 1], RInt(N)))]
  IN  [eng EXCEPT !.gains = newgain, !.ystep = newsid, !.Y = Y2,
                  !.momval = momval,
                  !.P = [x \in 1..(N * N) |-> RMul(RInt(Alpha(eng.iter)), eng.P[x])]]

\* Lines 325-350 without the reprojection of lines 352-357.
StepUpdateNoCentre(eng, grad) ==
  LET N == eng.N
      dim == eng.dim
      momval == MomVal(eng.iter)
      newgain == [i \in 1..N |-> [d \in 1..dim |->
                    NewGain(grad[i][d], eng.ystep[i][d], eng.gains[i][d])]]
      newsid == [i \in 1..N |-> [d \in 1..dim |->
                    NewSid(momval, eng.ystep[i][d], eng.epsilon,
                           newgain[i][d], grad[i][d])]]
      Y1 == [x \in 1..(N * dim) |->
               RAdd(eng.Y[x], newsid[((x - 1) \div dim) + 1][((x - 1) % dim) + 1])]
  IN  [eng EXCEPT !.gains = newgain, !.ystep = newsid, !.Y = Y1,
                  !.momval = momval]

\* Lines 325-357 for an engine whose iter is already incremented: the new
\* gains, ystep and Y.
StepUpdate(eng, grad) ==
  LET N == eng.N
      dim == eng.dim
      momval == MomVal(eng.iter)
      newgain == [i \in 1..N |-> [d \in 1..dim |->
                    NewGain(grad[i][d], eng.ystep[i][d], eng.gains[i][d])]]
      newsid == [i \in 1..N |-> [d \in 1..dim |->
                    NewSid(momval, eng.ystep[i][d], eng.epsilon,
                           newgain[i][d], grad[i][d])]]
      Y1 == [x \in 1..(N * dim) |->
               RAdd(eng.Y[x], newsid[((x - 1) \div dim) + 1][((x - 1) % dim) + 1])]
      ymean == [d \in 1..dim |-> RSum([i \in 1..N |-> Y1[(i - 1) * dim + d]])]
      Y2 == [x \in 1..(N * dim) |->
               RSub(Y1[x], RDiv(ymean[((x - 1) % dim) + 1], RInt(N)))]
  IN  [eng EXCEPT !.gains = newgain, !.ystep = newsid, !.Y = Y2,
                  !.momval = momval]

\* this.iter += 1 (line 319), with the bug of leaving it out.
BumpIterNot(iter) == iter

\* this.iter += 1 (line 319)
BumpIter(iter) == iter + 1

\* step().  this.iter += 1 comes first.  With this.N undefined costGrad
\* builds points = new Array(undefined) = [undefined] and hands it to
\* new SPTree (sptree.js, not among the sources): treeThrows says whether
\* that constructor throws; if it does not, every loop bounded by N is
\* skipped and step returns.  With N set, costGrad throws (CostGradThrows)
\* or returns the gradient grad.
StepCall(e, grad, treeThrows) ==
  LET eng == engines[e]
      e1 == [eng EXCEPT !.iter = BumpIter(eng.iter), !.calls = eng.calls + 1,
                        !.alpha = Alpha(BumpIter(eng.iter))]
  IN  /\ eng.alive
      /\ IF ~eng.inited
         THEN IF treeThrows
              THEN /\ engines' = [engines EXCEPT ![e] = e1]
                   /\ last' = [op |-> "step", e |-> e, outcome |-> "TypeError"]
              ELSE /\ engines' = [engines EXCEPT ![e] =
                                     [e1 EXCEPT !.done = eng.done + 1]]
                   /\ last' = [op |-> "step", e |-> e, outcome |-> "ok"]
         ELSE IF CostGradThrows(eng)
              THEN /\ engines' = [engines EXCEPT ![e] = e1]
                   /\ last' = [op |-> "step", e |-> e, outcome |-> "TypeError"]
              ELSE /\ engines' = [engines EXCEPT ![e] =
                        [StepUpdate(e1, grad) EXCEPT !.done = eng.done + 1,
                                                     !.hist = Append(eng.hist, grad)]]
                   /\ last' = [op |-> "step", e |-> e, outcome |-> "ok"]
      /\ UNCHANGED <<return_v, v_val>>
      /\ UNCHANGED locals

\* new SPTree([undefined]): whether the constructor of sptree.js throws on
\* a point that is undefined.  The sources do not contain sptree.js, so
\* both outcomes are kept.
SPTreeThrows == BOOLEAN

\* The inputs of a step call of engine e.
StepInputs(e) ==
  IF engines[e].inited
  THEN {[grad |-> g, treeThrows |-> FALSE] :
          g \in GradChoices(engines[e].N, engines[e].dim)}
  ELSE {[grad |-> <<>>, treeThrows |-> t] : t \in SPTreeThrows}

\* ------------------------------------------------ the tree of costGrad
\* A node of the tree (SPNode of sptree.js, augmented as AugmSPNode, line
\* 48): [point, children], children being <<>> for children == null (a
\* leaf) and otherwise the array of child slots, each a node or Null.  The
\* model keeps two slots per array and 2-D points with small coordinates.
Null == [null |-> TRUE]

TreePoints == {<<RInt(0), RInt(0)>>, <<RInt(1), RInt(0)>>, <<RInt(0), RInt(2)>>}

\* The trees of exactly n nodes; a node with children has at least one.
RECURSIVE TreesOf(_)
TreesOf(n) ==
  IF n = 1 THEN {[point |-> p, children |-> <<>>] : p \in TreePoints}
  ELSE UNION {{[point |-> p, children |-> <<a, Null>>],
               [point |-> p, children |-> <<Null, a>>]} :
                p \in TreePoints, a \in TreesOf(n - 1)}
       \cup
       UNION {{[point |-> p, children |-> <<a, b>>] :
                 p \in TreePoints, a \in TreesOf(k), b \in TreesOf(n - 1 - k)} :
              k \in 1..(n - 2)}

\* dist2_2D(a, b)
dist2_2D(a, b) ==
  LET dX == RSub(a[1], b[1])
      dY == RSub(a[2], b[2])
  IN  RAdd(RMul(dX, dX), RMul(dY, dY))

\* The count of a node from the sum over its children, with the bug of
\* starting the count at 0.
CountWithoutSelf(childSum) == childSum

\* let numCells = 1 (line 386); numCells += result.numCells (line 401)
CountWith(childSum) == 1 + childSum

\* The sums of lines 396-405 over the results of the child slots k, ...
RECURSIVE SumCells(_, _)
SumCells(results, k) ==
  IF k > Len(results) THEN 0
  ELSE (IF results[k] = Null THEN 0 ELSE results[k].numCells)
       + SumCells(results, k + 1)

RECURSIVE SumYCell(_, _, _)
SumYCell(results, k, d) ==
  IF k > Len(results) THEN Zero
  ELSE RAdd(IF results[k] = Null THEN Zero ELSE results[k].yCell[d],
            SumYCell(results, k + 1, d))

\* annotateTree(node), lines 384-410: the node with numCells and yCell
\* set in its whole subtree, and the returned {numCells, yCell} (for a
\* node with children the returned yCell is the sum, not the mean).
RECURSIVE annotateTree(_)
annotateTree(node) ==
  IF node.children = <<>>
  THEN [node |-> [point |-> node.point, children |-> <<>>,
                  numCells |-> CountWith(0), yCell |-> node.point],
        numCells |-> CountWith(0), yCell |-> node.point]
  ELSE LET results == [k \in 1..Len(node.children) |->
                         IF node.children[k] = Null THEN Null
                         ELSE annotateTree(node.children[k])]
           numCells == CountWith(SumCells(results, 1))
           yCell == [d \in 1..2 |->
                       RAdd(node.point[d], SumYCell(results, 1, d))]
       IN  [node |-> [point |-> node.point,
                      children |-> [k \in 1..Len(results) |->
                                      IF results[k] = Null THEN Null
                                      ELSE results[k].node],
                      numCells |-> numCells,
                      yCell |-> [d \in 1..2 |-> RDiv(yCell[d], RInt(numCells))]],
            numCells |-> numCells, yCell |-> yCell]

\* Lines 414-417: the first tree.visit sets node.rCell = high[0] - low[0]
\* in every node.  The boxes are those of sptree.js: r for the root, half
\* the parent's extent for a child.
RECURSIVE SetRCell(_, _)
SetRCell(node, r) ==
  [point |-> node.point, numCells |-> node.numCells, yCell |-> node.yCell,
   rCell |-> r,
   children |-> [k \in 1..Len(node.children) |->
                   IF node.children[k] = Null THEN Null
                   ELSE SetRCell(node.children[k], RDiv(r, RInt(2)))]]

\* node.rCell / Math.sqrt(squaredDistToCell) < THETA for rCell >= 0 and
\* squaredDistToCell > 0, without the square root: rCell^2 < THETA^2 * s2.
BelowTheta(rCell, s2) ==
  RLt(RMul(rCell, rCell), RMul(RMul(THETA, THETA), s2))

\* The callback with the comparison against THETA turned around.
VisitNodeAboveTheta(pointI, node) ==
  LET s2 == dist2_2D(pointI, node.yCell)
  IN  IF node.children = <<>> \/ (RLt(Zero, s2) /\ ~BelowTheta(node.rCell, s2))
      THEN [accept |-> TRUE,
            dZ |-> RMul(RInt(node.numCells), RDiv(One, RAdd(One, s2)))]
      ELSE [accept |-> FALSE,
            dZ |-> RDiv(One, RAdd(One, dist2_2D(pointI, node.point)))]

\* The callback of the repulsive walk (lines 437-457) on one node: what it
\* returns (accept) and what it adds to Z (dZ).
VisitNode(pointI, node) ==
  LET s2 == dist2_2D(pointI, node.yCell)
  IN  IF node.children = <<>> \/ (RLt(Zero, s2) /\ BelowTheta(node.rCell, s2))
      THEN [accept |-> TRUE,
            dZ |-> RMul(RInt(node.numCells), RDiv(One, RAdd(One, s2)))]
      ELSE [accept |-> FALSE,
            dZ |-> RDiv(One, RAdd(One, dist2_2D(pointI, node.point)))]

\* tree.visit(callback) of sptree.js from a node: depth first, the
\* children of a node are visited unless the callback returns true on it.
\* The result lists the visits in order: [path, accept, dZ], path being
\* the child slots from the root to the node.
RECURSIVE Visit(_, _, _)
RECURSIVE VisitKids(_, _, _, _)
Visit(pointI, node, path) ==
  LET r == VisitNode(pointI, node)
      rec == [path |-> path, accept |-> r.accept, dZ |-> r.dZ]
  IN  IF r.accept THEN <<rec>>
      ELSE <<rec>> \o VisitKids(pointI, node, path, 1)

VisitKids(pointI, node, path, k) ==
  IF k > Len(node.children) THEN <<>>
  ELSE (IF node.children[k] = Null THEN <<>>
        ELSE Visit(pointI, node.children[k], Append(path, k)))
       \o VisitKids(pointI, node, path, k + 1)

\* The points of a tree.
RECURSIVE PointsOf(_)
PointsOf(node) ==
  {node.point} \cup
  UNION {IF node.children[k] = Null THEN {} ELSE PointsOf(node.children[k]) :
           k \in 1..Len(node.children)}

\* Lines 380-417: the tree of a costGrad call, annotated.  A call builds
\* its tree once, before its walks.
TreeBuild(t, r) ==
  /\ walk.tree = <<>>
  /\ walk' = [tree |-> SetRCell(annotateTree(t).node, r), query |-> <<>>,
              visits |-> <<>>, Z |-> Zero]
  /\ UNCHANGED <<engines, return_v, v_val, last, search>>

\* Lines 437-457: the repulsive walk of the point pointI, Z counted from 0.
TreeWalk(pointI) ==
  /\ walk.tree # <<>>
  /\ \E v \in {Visit(pointI, walk.tree, <<>>)} :
       walk' = [walk EXCEPT !.query = pointI, !.visits = v,
                            !.Z = RSum([k \in 1..Len(v) |-> v[k].dZ])]
  /\ UNCHANGED <<engines, return_v, v_val, last, search>>

\* ------------------------------------------- the binary search for beta
\* let maxTries = 50 (line 155)
maxTries == 50

\* The break of line 201 with the limit on the trials left out.
StopSearchOnlyClose(numTries, close) == close

\* Lines 200-204: numTries >= maxTries || Math.abs(Hhere - Htarget) < tol,
\* close being the value of the second operand.
StopSearch(numTries, close) == numTries >= maxTries \/ close

\* Lines 150-159: the loop over the examples enters row i + 1 and resets
\* the locals of the search.
StartRow ==
  /\ ~search.running
  /\ search.row < MaxN - 1
  /\ search' = [NoSearch EXCEPT !.row = search.row + 1, !.running = TRUE]
  /\ UNCHANGED <<engines, return_v, v_val, last, walk>>

\* One pass of the while loop (lines 160-205).  The entropy Hhere of the
\* trial is not computed: high is Hhere > Htarget (line 181) and close is
\* Math.abs(Hhere - Htarget) < tol (line 201).
Trial(high, close) ==
  /\ search.running
  /\ search.numTries < MaxTrials
  /\ search' =
       [search EXCEPT
          !.betaMinInf = IF high THEN FALSE ELSE @,
          !.betaMaxInf = IF high THEN @ ELSE FALSE,
          !.adjust = IF high
                     THEN IF search.betaMaxInf THEN "beta * 2"
                          ELSE "(beta + betaMax) / 2"
                     ELSE IF search.betaMinInf THEN "beta / 2"
                          ELSE "(beta + betaMin) / 2",
          !.numTries = search.numTries + 1,
          !.close = close,
          !.running = ~StopSearch(search.numTries + 1, close)]
  /\ UNCHANGED <<engines, return_v, v_val, last, walk>>

\* --------------------------------------------------- the specifications
\* The tables the engine specifications feed: for N points, the ring with
\* one neighbor per row (for N = 1 the point itself), the same with an
\* index outside [0, N) in row 0, and the same with an empty last row
\* (ragged).  N = 0 gives the empty table.
RingTables ==
  {Ring(N, 1) : N \in 0..MaxN} \cup
  {[Ring(N, 1) EXCEPT ![1] = <<[index |-> N, dist |-> 1]>>] : N \in 1..MaxN} \cup
  {[Ring(N, 1) EXCEPT ![N] = <<>>] : N \in 2..MaxN}

Half == <<1, 2>>

\* The tables initDataDist of engine e is called with: any table of the
\* family on the first call, the same table again on a later one.
TablesFor(e, family) ==
  IF engines[e].distCalled THEN {engines[e].nearest} ELSE family

\* One engine, every operation, few steps.
New == \E opt \in Opts : Construct(1, opt, CHOOSE s \in Seeds : \A q \in Seeds : s <= q)

Dist == \E knn \in TablesFor(1, RingTables) : \E kv \in KvChoices(knn, {Half}) :
          InitDataDist(1, knn, kv)

Reinit == InitSolution(1)

Get == GetSolution(1)

Step == /\ engines[1].iter < MaxIter
        /\ \E in \in StepInputs(1) : StepCall(1, in.grad, in.treeThrows)

Next == New \/ Dist \/ Reinit \/ Get \/ Step

Spec == Init /\ [][Next]_vars

\* One engine stepped far beyond both schedule switches.  The gradient is
\* zero in all but the last MaxIter steps, which keeps the exact arithmetic
\* on Y bounded; the last steps take any gradient of GradChoices.
NewSched == \E d \in {2, 3} :
              Construct(1, [present |-> TRUE, dim |-> d],
                        CHOOSE s \in Seeds : \A q \in Seeds : s <= q)

DistSched == \E knn \in TablesFor(1, {Ring(N, 1) : N \in 1..MaxN}) :
               \E kv \in KvChoices(knn, {Half}) : InitDataDist(1, knn, kv)

StepSched == /\ engines[1].inited
             /\ engines[1].iter < MaxSchedIter
             /\ \E grad \in (IF engines[1].iter < MaxSchedIter - MaxIter
                            THEN {ZeroGrad(engines[1].N, engines[1].dim)}
                            ELSE GradChoices(engines[1].N, engines[1].dim)) :
                  StepCall(1, grad, FALSE)

NextSched == NewSched \/ DistSched \/ StepSched

SpecSchedule == Init /\ [][NextSched]_vars

\* The calibrator on every input, one engine and one initDataDist call:
\* the empty table, and every ring of N points and K neighbors in which one
\* row s is replaced by an arbitrary row r (of any length up to MaxK, with
\* any indices in 0..N and distances).  The search ends with
\* exp(-beta) = 1/2 in the rows of the ring and with any value of ExpVals
\* in row s.
NewCalib == Construct(1, [present |-> TRUE, dim |-> 2],
                      CHOOSE s \in Seeds : \A q \in Seeds : s <= q)

DistCalib ==
  /\ ~engines[1].distCalled
  /\ \/ InitDataDist(1, <<>>, <<>>)
     \/ \E N \in 1..MaxN, K \in 0..MaxK, l \in 0..MaxK :
          \E s \in 1..N, r \in Rows(N, l), e \in ExpVals :
            InitDataDist(1, [Ring(N, K) EXCEPT ![s] = r],
                         [q \in 1..N |-> IF q = s THEN e ELSE Half])

NextCalib == NewCalib \/ DistCalib

SpecCalib == Init /\ [][NextCalib]_vars

\* Two engines of one process: each is constructed, initialized once and
\* stepped.
NewPair == \E e \in Engines, d \in {2, 3}, seed \in Seeds :
             Construct(e, [present |-> TRUE, dim |-> d], seed)

DistPair == \E e \in Engines, N \in 1..MaxN :
              /\ ~engines[e].distCalled
              /\ \E kv \in KvChoices(Ring(N, 1), {Half}) :
                   InitDataDist(e, Ring(N, 1), kv)

StepPair == \E e \in Engines :
              /\ engines[e].inited
              /\ engines[e].iter < MaxIter
              /\ StepCall(e, [i \in 1..engines[e].N |->
                                [d \in 1..engines[e].dim |-> GradUnit]], FALSE)

NextPair == NewPair \/ DistPair \/ StepPair

SpecPair == Init /\ [][NextPair]_vars

\* The binary search of nearest2P, row after row, with every outcome of
\* the entropy comparisons.
TrialStep == \E high, close \in BOOLEAN : Trial(high, close)

NextSearch == StartRow \/ TrialStep

SpecSearch == Init /\ [][NextSearch]_vars

\* The tree of one costGrad call and the walks over it: every tree of up
\* to MaxNodes nodes, a root extent of 1 or 4, every point of the tree.
Build == \E n \in 1..MaxNodes : \E t \in TreesOf(n), r \in {RInt(1), RInt(4)} :
           TreeBuild(t, r)

WalkPoint == /\ walk.tree # <<>>
             /\ \E p \in PointsOf(walk.tree) : TreeWalk(p)

NextTree == Build \/ WalkPoint

SpecTree == Init /\ [][NextTree]_vars

\* ----------------------------------------------------------- the claims
\* P[i, j] of engine record eng, points numbered from 0.
PAt(eng, i, j) == eng.P[i * eng.N + j + 1]

Neighbor(eng, i, j) ==
  \E k \in 1..Len(eng.nearest[i + 1]) : eng.nearest[i + 1][k].index = j

GainFloor == GainScale \div 100

\* C1: the iteration counter t is 0 right after initSolution / initDataDist,
\* whatever ran before, and every step call raises it by exactly 1: t is
\* the number of step calls since the last (re)initialization.
C1_IterCountsSteps ==
  \A e \in Engines :
    engines[e].alive =>
      /\ engines[e].iter = engines[e].calls
      /\ (last.e = e /\ last.outcome = "ok"
          /\ last.op \in {"initSolution", "initDataDist"}) => engines[e].iter = 0

\* Two completed steps after a second initialization.
C1_Witness ==
  \E e \in Engines :
    /\ engines[e].inits = 2 /\ engines[e].inited
    /\ engines[e].done = 2 /\ engines[e].iter = 2

\* C2: the k-th step after an initialization reads the number k - 1 of
\* steps completed before it: alpha is 4 on exactly the first 100 steps,
\* the momentum 0.5 on exactly the first 250.
C2_SchedulesReadCompletedSteps ==
  \A e \in Engines :
    (last.op = "step" /\ last.e = e /\ last.outcome = "ok" /\ engines[e].inited) =>
      /\ engines[e].alpha = (IF engines[e].done <= 100 THEN 4 ELSE 1)
      /\ engines[e].momval = (IF engines[e].done <= 250 THEN <<1, 2>> ELSE <<4, 5>>)

\* C3: a step call on an initialized engine that throws during the
\* gradient evaluation leaves both t and Y as they were.
C3_FailedStepChangesNothing ==
  [][\A e \in Engines :
       (/\ last'.op = "step" /\ last'.e = e /\ last'.outcome # "ok"
        /\ engines[e].inited) =>
         /\ engines'[e].iter = engines[e].iter
         /\ engines'[e].Y = engines[e].Y]_vars

\* C4: step on an engine on which initDataDist was never called fails with
\* an Uninitialized error.
C4_UninitializedStepFails ==
  (last.op = "step" /\ ~engines[last.e].distCalled) =>
     last.outcome = "Uninitialized"

\* A table that is empty, ragged, or has an index outside [0, N).
InvalidTable(t) ==
  \/ Len(t) = 0
  \/ \E r, q \in 1..Len(t) : Len(t[r]) # Len(t[q])
  \/ \E r \in 1..Len(t) : \E k \in 1..Len(t[r]) : t[r][k].index >= Len(t)

\* C5: initDataDist never returns normally, with P stored, for a table
\* that is empty, ragged or has an index outside [0, N) (it fails with
\* InvalidNeighbors).
C5_InvalidTableRejected ==
  \A e \in Engines :
    (last.op = "initDataDist" /\ last.e = e /\ InvalidTable(engines[e].nearest)) =>
      /\ last.outcome # "ok"
      /\ ~engines[e].inited

\* C6: two engines with the same options and identically seeded
\* generators, fed the same table, initialized once and stepped equally,
\* hold the same Y.
C6_EnginesAgree ==
  \A e, f \in Engines :
    (/\ engines[e].inited /\ engines[f].inited
     /\ engines[e].inits = 1 /\ engines[f].inits = 1
     /\ engines[e].dim = engines[f].dim
     /\ engines[e].seed = engines[f].seed
     /\ engines[e].nearest = engines[f].nearest
     /\ engines[e].calls = engines[f].calls
     /\ engines[e].hist = engines[f].hist) =>
      engines[e].Y = engines[f].Y

\* A table the calibrator accepts by its contract: at least one row, every
\* row of the same length K >= 1, every index inside [0, N).
ValidTable(t) ==
  /\ Len(t) >= 1
  /\ Len(t[1]) >= 1
  /\ \A r \in 1..Len(t) : Len(t[r]) = Len(t[1])
  /\ \A r \in 1..Len(t) : \A k \in 1..Len(t[r]) : t[r][k].index < Len(t)

\* C7: P sums to 1 over all entries for every valid table, also when a
\* row lists its own index or one index twice.
C7_PSumsToOne ==
  \A e \in Engines :
    (engines[e].inited /\ ValidTable(engines[e].nearest)) =>
      REq(RSum(engines[e].P), One)

\* A valid table in which no row lists its own index or lists an index
\* twice.
CleanTable(t) ==
  /\ ValidTable(t)
  /\ \A r \in 1..Len(t) : \A k \in 1..Len(t[r]) :
       /\ t[r][k].index # r - 1
       /\ \A q \in 1..Len(t[r]) : t[r][q].index = t[r][k].index => q = k

\* C8 as claimed: every probability the copy loop writes into P is at
\* least MIN_POSSIBLE_PROB, for every row and every neighbor (stated here
\* for the tables that are beyond dispute, those with CleanTable).
C8_WrittenAtLeastMin ==
  \A e \in Engines :
    (engines[e].inited /\ CleanTable(engines[e].nearest)) =>
      \A r \in 1..Len(engines[e].pRows) : \A k \in 1..Len(engines[e].pRows[r]) :
        RLe(MIN_POSSIBLE_PROB, engines[e].pRows[r][k])

\* C8 as amended: the clamp bounds the kernel value before the row is
\* normalized; the probability written into P is at least
\* MIN_POSSIBLE_PROB / K for a row of K neighbors.
C8_ClampBeforeNormalization ==
  \A e \in Engines :
    engines[e].inited =>
      \A r \in 1..Len(engines[e].pRows) : \A k \in 1..Len(engines[e].pRows[r]) :
        /\ RLe(MIN_POSSIBLE_PROB, engines[e].kRows[r][k])
        /\ RLe(RDiv(MIN_POSSIBLE_PROB, RInt(Len(engines[e].pRows[r]))),
               engines[e].pRows[r][k])

\* A written probability below MIN_POSSIBLE_PROB whose kernel value was
\* clamped.
C8_Witness ==
  \E e \in Engines :
    /\ engines[e].inited
    /\ CleanTable(engines[e].nearest)
    /\ \E r \in 1..Len(engines[e].pRows) : \E k \in 1..Len(engines[e].pRows[r]) :
         /\ engines[e].kRows[r][k] = MIN_POSSIBLE_PROB
         /\ RLt(engines[e].pRows[r][k], MIN_POSSIBLE_PROB)

\* C9: after initDataDist P[i, j] = P[j, i] for all i, j in [0, N).
C9_PSymmetric ==
  \A e \in Engines :
    engines[e].inited =>
      \A i, j \in 0..(engines[e].N - 1) :
        REq(PAt(engines[e], i, j), PAt(engines[e], j, i))

\* j is a neighbor of i, i is not a neighbor of j, and P[i, j] > 0.
C9_Witness ==
  \E e \in Engines :
    /\ engines[e].inited
    /\ \E i, j \in 0..(engines[e].N - 1) :
         /\ i # j
         /\ Neighbor(engines[e], i, j)
         /\ ~Neighbor(engines[e], j, i)
         /\ RLt(Zero, PAt(engines[e], i, j))

\* C10: every gain is 1.0 right after an initialization and at least
\* 0.01 after every step.
C10_GainFloor ==
  \A e \in Engines :
    engines[e].hasY =>
      \A i \in 1..Len(engines[e].gains) : \A d \in 1..engines[e].dim :
        /\ engines[e].calls = 0 => engines[e].gains[i][d] = GainScale
        /\ engines[e].gains[i][d] >= GainFloor

\* A gain that a step has clamped to 0.01.
C10_Witness ==
  \E e \in Engines :
    /\ engines[e].done >= 1
    /\ \E i \in 1..Len(engines[e].gains) : \E d \in 1..engines[e].dim :
         engines[e].gains[i][d] = GainFloor

\* The mean of Y[i, d] over the N points of engine record eng.
ColumnMean(eng, d) ==
  RDiv(RSum([i \in 1..eng.N |-> eng.Y[(i - 1) * eng.dim + d]]), RInt(eng.N))

\* C11: after every completed step of an initialized engine the mean of
\* Y[i, d] over the N points is zero for every dimension d; for N = 1 the
\* point is at the origin.
C11_ZeroMean ==
  \A e \in Engines :
    (engines[e].inited /\ engines[e].done >= 1) =>
      /\ \A d \in 1..engines[e].dim : REq(ColumnMean(engines[e], d), Zero)
      /\ engines[e].N = 1 =>
           \A x \in 1..Len(engines[e].Y) : engines[e].Y[x] = Zero

\* A completed step on two or more points that are not all at the origin.
C11_Witness ==
  \E e \in Engines :
    /\ engines[e].inited /\ engines[e].done >= 1 /\ engines[e].N >= 2
    /\ \E x \in 1..Len(engines[e].Y) : engines[e].Y[x] # Zero

\* C12 as claimed: new TSNE(opt) succeeds exactly when opt is an options
\* object with dim 2 or 3; without an options object, or with any other
\* dim, it fails.
C12_OnlyDim2And3 ==
  last.op = "new" =>
    (last.outcome = "ok" <=> (last.opt.present /\ last.opt.dim \in {2, 3}))

\* C12 as amended: an options object with a dim other than 2 and 3 fails
\* with the error 'Only 2D and 3D is supported' and leaves no engine; dim 2
\* and dim 3 succeed; no options object at all succeeds as a 2-D engine.
C12_MissingOptionsDefaultTo2D ==
  last.op = "new" =>
    IF last.opt.present /\ last.opt.dim \notin {2, 3}
    THEN /\ last.outcome = "Error: Only 2D and 3D is supported"
         /\ ~engines[last.e].alive
    ELSE /\ last.outcome = "ok"
         /\ engines[last.e].alive
         /\ engines[last.e].dim = (IF last.opt.present THEN last.opt.dim ELSE 2)

\* A constructor call without an options object that succeeded.
C12_Witness ==
  last.op = "new" /\ ~last.opt.present /\ last.outcome = "ok"

\* C13: a step call on an engine whose P is built changes neither P, N nor
\* the stored table (nor dim, epsilon, the generator or the sampler's
\* cache): it changes only Y, the gains, the step memory and t.
\* getSolution changes nothing at all.
C13_StepKeepsP ==
  [][\A e \in Engines :
       (last'.op = "step" /\ last'.e = e /\ engines[e].inited) =>
         /\ engines'[e].P = engines[e].P
         /\ engines'[e].N = engines[e].N
         /\ engines'[e].nearest = engines[e].nearest
         /\ engines'[e].dim = engines[e].dim
         /\ engines'[e].epsilon = engines[e].epsilon
         /\ engines'[e].rng = engines[e].rng
         /\ return_v' = return_v /\ v_val' = v_val]_vars

\* A completed step of an engine whose P has a non-zero entry and whose Y
\* is not all zero.
C13_Witness ==
  \E e \in Engines :
    /\ last.op = "step" /\ last.e = e /\ last.outcome = "ok"
    /\ engines[e].inited /\ engines[e].done >= 1
    /\ \E x \in 1..Len(engines[e].P) : engines[e].P[x] # Zero
    /\ \E x \in 1..Len(engines[e].Y) : engines[e].Y[x] # Zero

\* C15: the binary search of a row makes at most 50 trials: it has left
\* the loop once 50 trials are made, whether or not a trial came within
\* tol of the target.
C15_SearchStops ==
  /\ search.numTries <= 50
  /\ search.numTries = 50 => ~search.running

\* The search of the last row has stopped after 50 trials none of which
\* came within tol.
C15_Witness ==
  /\ search.row = MaxN - 1
  /\ ~search.running /\ search.numTries = 50 /\ ~search.close

\* The nodes of a tree, and the number of nodes of a tree.
RECURSIVE NodesOf(_)
NodesOf(node) ==
  {node} \cup
  UNION {IF node.children[k] = Null THEN {} ELSE NodesOf(node.children[k]) :
           k \in 1..Len(node.children)}

RECURSIVE SubtreeSize(_)
RECURSIVE SizeFrom(_, _)
SubtreeSize(node) == 1 + SizeFrom(node.children, 1)

SizeFrom(children, k) ==
  IF k > Len(children) THEN 0
  ELSE (IF children[k] = Null THEN 0 ELSE SubtreeSize(children[k]))
       + SizeFrom(children, k + 1)

\* C14 as stated: in the annotated tree every node with children has for
\* numCells the sum of the numCells of its non-null children, and every
\* leaf has 1.
C14_InternalIsSumOfChildren ==
  walk.tree # <<>> =>
    \A n \in NodesOf(walk.tree) :
      IF n.children = <<>> THEN n.numCells = 1
      ELSE n.numCells = SumCells(n.children, 1)

\* C14, amended: in the annotated tree every leaf has numCells 1 and every
\* node with children has 1, for its own point, plus the sum of the
\* numCells of its non-null children, so that the numCells of the root is
\* the number of nodes of the tree.
C14_NumCellsCountsNodes ==
  walk.tree # <<>> =>
    /\ \A n \in NodesOf(walk.tree) :
         IF n.children = <<>> THEN n.numCells = 1
         ELSE n.numCells = 1 + SumCells(n.children, 1)
    /\ walk.tree.numCells = SubtreeSize(walk.tree)

C14_Witness ==
  /\ walk.tree # <<>>
  /\ walk.tree.children # <<>>
  /\ walk.tree.children[1] # Null
  /\ walk.tree.children[2] # Null
  /\ walk.tree.numCells = 3

\* C16: in the calibrator a neighbor entry of row i whose index is i has
\* probability 0 in the trial: its kernel value, which is its part of the
\* normalizing sum psum, is 0, and so is the probability that the copy
\* loop writes for it into P[i, i].
C16_SelfEntryIsZero ==
  \A e \in Engines :
    (engines[e].inited /\ ValidTable(engines[e].nearest)) =>
      \A r \in 1..Len(engines[e].nearest) :
        \A k \in 1..Len(engines[e].nearest[r]) :
          engines[e].nearest[r][k].index = r - 1 =>
            /\ engines[e].kRows[r][k] = Zero
            /\ engines[e].pRows[r][k] = Zero

\* The node of a tree at the end of a path of child slots.
RECURSIVE NodeAt(_, _)
NodeAt(node, path) ==
  IF path = <<>> THEN node ELSE NodeAt(node.children[Head(path)], Tail(path))

\* s^2 > 0 and rCell / sqrt(s^2) < 0.8, that is 25 rCell^2 < 16 s^2.
FarEnough(rCell, s2) ==
  /\ RLt(Zero, s2)
  /\ RLt(RMul(RInt(25), RMul(rCell, rCell)), RMul(RInt(16), s2))

\* C17: in the repulsive walk of a point i the root is visited; a visited
\* node is summarized, and none of its children is visited, exactly when
\* it is a leaf or (s^2 > 0 and rCell / sqrt(s^2) < 0.8), s^2 being the
\* squared distance from i to the node's yCell, and then Z grows by
\* numCells / (1 + s^2); otherwise Z grows by the singleton term
\* 1 / (1 + |i - node.point|^2) and every non-null child is visited.
C17_WalkSummarizesOrDescends ==
  walk.query # <<>> =>
    LET v == walk.visits
        q == walk.query
    IN  /\ Len(v) >= 1
        /\ v[1].path = <<>>
        /\ REq(walk.Z, RSum([k \in 1..Len(v) |-> v[k].dZ]))
        /\ \A k \in 1..Len(v) :
             LET n == NodeAt(walk.tree, v[k].path)
                 s2 == dist2_2D(q, n.yCell)
                 below == {j \in 1..Len(v) :
                            /\ Len(v[j].path) > Len(v[k].path)
                            /\ SubSeq(v[j].path, 1, Len(v[k].path)) = v[k].path}
             IN  /\ v[k].accept <=> (n.children = <<>> \/ FarEnough(n.rCell, s2))
                 /\ v[k].accept =>
                      /\ REq(v[k].dZ, RDiv(RInt(n.numCells), RAdd(One, s2)))
                      /\ below = {}
                 /\ ~v[k].accept =>
                      /\ REq(v[k].dZ,
                             RDiv(One, RAdd(One, dist2_2D(q, n.point))))
                      /\ \A c \in 1..Len(n.children) :
                           n.children[c] # Null =>
                             \E j \in 1..Len(v) :
                               v[j].path = Append(v[k].path, c)

\* A walk that descends through one node and summarizes a node that has
\* children.
C17_Witness ==
  /\ walk.query # <<>>
  /\ \E k \in 1..Len(walk.visits) : ~walk.visits[k].accept
  /\ \E k \in 1..Len(walk.visits) :
       /\ walk.visits[k].accept
       /\ NodeAt(walk.tree, walk.visits[k].path).children # <<>>
       /\ NodeAt(walk.tree, walk.visits[k].path).numCells > 1

=============================================================================
